---- MODULE Spec2Model ----
(***************************************************************************)
(* Financial Document Anomaly Detector (src/anomaly.py).                   *)
(*                                                                         *)
(* Text is a sequence of one-character strings.  The regular expressions   *)
(* of the field parsers are evaluated character by character, the way      *)
(* re.search / re.findall evaluate them (leftmost match, greedy            *)
(* quantifiers; the character classes that follow one another in each      *)
(* pattern are disjoint, so greedy matching never has to backtrack).       *)
(*                                                                         *)
(* The session store is st.session_state.processed_documents.  The         *)
(* 'timestamp' field of a record (datetime.now()) is read by no code of    *)
(* the program and is left out of the records.                             *)
(***************************************************************************)
EXTENDS Integers, Sequences, FiniteSets, TLC

\* processed_documents: st.session_state.processed_documents
\* uploads, preClear, lines: history of what was uploaded, cleared and rendered
VARIABLES processed_documents, uploads, preClear, lines

vars == <<processed_documents, uploads, preClear, lines>>

\* ------------------------------------------------------------------ bounds
MaxDocs == 3
MaxBatch == 2
MaxLines == 3

\* -------------------------------------------------------------- characters
UpperOf ==
  [a |-> "A", b |-> "B", c |-> "C", d |-> "D", e |-> "E", f |-> "F", g |-> "G",
   h |-> "H", i |-> "I", j |-> "J", k |-> "K", l |-> "L", m |-> "M", n |-> "N",
   o |-> "O", p |-> "P", q |-> "Q", r |-> "R", s |-> "S", t |-> "T", u |-> "U",
   v |-> "V", w |-> "W", x |-> "X", y |-> "Y", z |-> "Z"]

LowerOf ==
  [A |-> "a", B |-> "b", C |-> "c", D |-> "d", E |-> "e", F |-> "f", G |-> "g",
   H |-> "h", I |-> "i", J |-> "j", K |-> "k", L |-> "l", M |-> "m", N |-> "n",
   O |-> "o", P |-> "p", Q |-> "q", R |-> "r", S |-> "s", T |-> "t", U |-> "u",
   V |-> "v", W |-> "w", X |-> "x", Y |-> "y", Z |-> "z"]

LowerLetters == DOMAIN UpperOf
UpperLetters == DOMAIN LowerOf
Digits == {"0", "1", "2", "3", "4", "5", "6", "7", "8", "9"}
Spaces == {" ", "\n", "\t"}

DigitVal ==
  [c \in Digits |->
     CASE c = "0" -> 0 [] c = "1" -> 1 [] c = "2" -> 2 [] c = "3" -> 3
       [] c = "4" -> 4 [] c = "5" -> 5 [] c = "6" -> 6 [] c = "7" -> 7
       [] c = "8" -> 8 [] c = "9" -> 9]

DigitChar == <<"0", "1", "2", "3", "4", "5", "6", "7", "8", "9">>

\* str.upper() / the case folding of re.IGNORECASE, one character
UpperChar(c) == IF c \in LowerLetters THEN UpperOf[c] ELSE c

LowerChar(c) == IF c \in UpperLetters THEN LowerOf[c] ELSE c

\* text.upper()
Upper(text) == [i \in 1..Len(text) |-> UpperChar(text[i])]

Min(S) == CHOOSE x \in S : \A y \in S : x <= y

\* None, and every falsy str: a capture group of these patterns is never empty
None == <<>>

\* ------------------------------------------------------- regex primitives
\* a literal of the pattern under re.IGNORECASE, at position i
LitAt(lit, text, i) ==
  /\ i >= 1
  /\ i + Len(lit) - 1 <= Len(text)
  /\ \A k \in 1..Len(lit) : LowerChar(text[i + k - 1]) = lit[k]

\* \s* from position i: the position after the longest run of whitespace
RECURSIVE SkipSpaces(_, _)
SkipSpaces(text, i) ==
  IF i <= Len(text) /\ text[i] \in Spaces THEN SkipSpaces(text, i + 1) ELSE i

\* \d* from position i: the position after the longest run of digits
RECURSIVE SkipDigits(_, _)
SkipDigits(text, i) ==
  IF i <= Len(text) /\ text[i] \in Digits THEN SkipDigits(text, i + 1) ELSE i

CharAt(text, i, c) == i >= 1 /\ i <= Len(text) /\ text[i] = c

DigitAt(text, i) == i >= 1 /\ i <= Len(text) /\ text[i] \in Digits

\* \s*:\s*(\d+\.\d{2}) from position i: the capture group, or None
AmountAt(text, i) ==
  LET j1 == SkipSpaces(text, i)
      j2 == SkipSpaces(text, j1 + 1)
      j3 == SkipDigits(text, j2)
  IN  IF /\ CharAt(text, j1, ":")
         /\ j3 > j2
         /\ CharAt(text, j3, ".")
         /\ DigitAt(text, j3 + 1)
         /\ DigitAt(text, j3 + 2)
      THEN SubSeq(text, j2, j3 + 2)
      ELSE None

\* ------------------------------------------------------------ field parsers
\* [0-9]{2}[A-Z]{5}[0-9]{4}[A-Z]{1}[1-9A-Z]{1}[Z]{1}[0-9A-Z]{1} at position i
GstinAt(u, i) ==
  /\ i + 14 <= Len(u)
  /\ \A k \in 0..1 : u[i + k] \in Digits
  /\ \A k \in 2..6 : u[i + k] \in UpperLetters
  /\ \A k \in 7..10 : u[i + k] \in Digits
  /\ u[i + 11] \in UpperLetters
  /\ u[i + 12] \in (Digits \ {"0"}) \cup UpperLetters
  /\ u[i + 13] = "Z"
  /\ u[i + 14] \in Digits \cup UpperLetters

extract_gstin(text) ==
  LET u == Upper(text)
      hits == {i \in 1..Len(u) : GstinAt(u, i)}
  IN  IF hits = {} THEN None ELSE SubSeq(u, Min(hits), Min(hits) + 14)

\* GST\s*@?\s*(\d+)% at position i: the capture group, or None
RateAt(text, i) ==
  IF ~LitAt(<<"g", "s", "t">>, text, i) THEN None
  ELSE LET j1 == SkipSpaces(text, i + 3)
           j2 == IF CharAt(text, j1, "@") THEN j1 + 1 ELSE j1
           j3 == SkipSpaces(text, j2)
           j4 == SkipDigits(text, j3)
       IN  IF j4 > j3 /\ CharAt(text, j4, "%")
           THEN SubSeq(text, j3, j4 - 1)
           ELSE None

extract_gst_rate(text) ==
  LET hits == {i \in 1..Len(text) : RateAt(text, i) # None}
  IN  IF hits = {} THEN None ELSE RateAt(text, Min(hits))

\* Total\s*:\s*(\d+\.\d{2}) at position i
TotalAt(text, i) ==
  IF LitAt(<<"t", "o", "t", "a", "l">>, text, i)
  THEN AmountAt(text, i + 5)
  ELSE None

\* Sub\s*Total\s*:\s*(\d+\.\d{2}) at position i
SubtotalAt(text, i) ==
  IF LitAt(<<"s", "u", "b">>, text, i)
  THEN TotalAt(text, SkipSpaces(text, i + 3))
  ELSE None

\* GST\s*:\s*(\d+\.\d{2}) at position i
TaxAt(text, i) ==
  IF LitAt(<<"g", "s", "t">>, text, i)
  THEN AmountAt(text, i + 3)
  ELSE None

SearchTotal(text) ==
  LET hits == {i \in 1..Len(text) : TotalAt(text, i) # None}
  IN  IF hits = {} THEN None ELSE TotalAt(text, Min(hits))

SearchSubtotal(text) ==
  LET hits == {i \in 1..Len(text) : SubtotalAt(text, i) # None}
  IN  IF hits = {} THEN None ELSE SubtotalAt(text, Min(hits))

SearchTax(text) ==
  LET hits == {i \in 1..Len(text) : TaxAt(text, i) # None}
  IN  IF hits = {} THEN None ELSE TaxAt(text, Min(hits))

\* ------------------------------------------------------------------ floats
\* float() of a captured \d+\.\d{2}, held exactly as an integer number of cents
RECURSIVE DigitsToNat(_)
DigitsToNat(ds) ==
  IF ds = <<>> THEN 0
  ELSE 10 * DigitsToNat(SubSeq(ds, 1, Len(ds) - 1)) + DigitVal[ds[Len(ds)]]

ToFloat(capture) ==
  LET n == Len(capture)
  IN  100 * DigitsToNat(SubSeq(capture, 1, n - 3))
        + DigitsToNat(SubSeq(capture, n - 1, n))

RECURSIVE NatStr(_)
NatStr(n) ==
  IF n < 10 THEN <<DigitChar[n + 1]>>
  ELSE NatStr(n \div 10) \o <<DigitChar[(n % 10) + 1]>>

\* str() of a float that is a whole number of cents (below 1e16): the shortest
\* decimal that reads back, so a trailing zero of the fraction is dropped
FloatStr(cents) ==
  LET frac == cents % 100
  IN  NatStr(cents \div 100) \o <<".">> \o
        (IF frac % 10 = 0 THEN <<DigitChar[(frac \div 10) + 1]>>
         ELSE <<DigitChar[(frac \div 10) + 1], DigitChar[(frac % 10) + 1]>>)

Abs(x) == IF x < 0 THEN -x ELSE x

\* atol=0.01 of the np.isclose call, in cents
AtolCents == 1
\* 1 / rtol, rtol being the 1e-05 that np.isclose uses when none is passed
RtolInverse == 100000

\* np.isclose(a, b, atol=0.01): |a - b| <= atol + rtol * |b|, in cents.
\* With d = |a - b| a whole number of cents, d <= AtolCents + |b| / RtolInverse
\* is (d - AtolCents) <= floor(|b| / RtolInverse).
isclose(a, b) == Abs(a - b) - AtolCents <= Abs(b) \div RtolInverse

\* ---------------------------------------------------------------- messages
\* An f-string is its template and the values interpolated into it.
Msg(fmt, args) == [fmt |-> fmt, args |-> args]

Anomaly(severity, msg) == <<severity, msg>>

GST_RATES == {<<"0">>, <<"5">>, <<"1", "2">>, <<"1", "8">>, <<"2", "8">>}

\* (the not-equal sign of the mismatch message is written /= in its template)
check_calculations(text) ==
  LET matches == SearchTotal(text)
      subtotal_match == SearchSubtotal(text)
      tax_match == SearchTax(text)
  IN  IF matches = None THEN <<FALSE, Msg("Total amount not found", <<>>)>>
      ELSE LET total == ToFloat(matches)
           IN  IF subtotal_match # None /\ tax_match # None
               THEN LET subtotal == ToFloat(subtotal_match)
                        tax == ToFloat(tax_match)
                        calculated_total == subtotal + tax
                    IN  IF ~isclose(total, calculated_total)
                        THEN <<FALSE, Msg("Calculation mismatch: {subtotal} + {tax} /= {total}",
                                          <<FloatStr(subtotal), FloatStr(tax), FloatStr(total)>>)>>
                        ELSE <<TRUE, Msg("Calculations OK", <<>>)>>
               ELSE <<TRUE, Msg("Calculations OK", <<>>)>>

\* the rate read as a number before it is looked up
validate_gst_rate_numeric(rate) ==
  IF DigitsToNat(rate) \notin {0, 5, 12, 18, 28}
  THEN <<FALSE, Msg("Non-standard GST rate: {rate}%", <<rate>>)>>
  ELSE <<TRUE, Msg("Valid GST rate: {rate}%", <<rate>>)>>

validate_gst_rate(rate) ==
  IF rate \notin GST_RATES
  THEN <<FALSE, Msg("Non-standard GST rate: {rate}%", <<rate>>)>>
  ELSE <<TRUE, Msg("Valid GST rate: {rate}%", <<rate>>)>>

\* hashlib.md5(content.encode()).hexdigest(): the digest is held as the text it
\* digests, tagged; equal digests are equal texts (MD5 collisions are not modelled)
calculate_hash(content) == [md5 |-> content]

\* -------------------------------------------------------------- extraction
\* An uploaded file is its name, its MIME type split at '/', and what the
\* libraries do with it: direct[k] is what pdfplumber yields for page k
\* ("text", "none" for a page without text layer, "raise" for an error; an
\* error of pdfplumber.open is a "raise" at page 1), ocr[k] what the OCR
\* fallback yields for page k (an error of fitz.open or of uploaded_file.read
\* is a "raise" at page 1).  For an image, ocr[1] is the outcome of
\* Image.open + pytesseract.image_to_string.
PageText(outcome) == IF outcome.kind = "none" THEN <<>> ELSE outcome.text

\* for page in pages: text += ...   until a page raises
RECURSIVE RunPages(_, _, _)
RunPages(outcomes, i, text) ==
  IF i > Len(outcomes) THEN [text |-> text, raised |-> FALSE]
  ELSE IF outcomes[i].kind = "raise" THEN [text |-> text, raised |-> TRUE]
  ELSE RunPages(outcomes, i + 1, text \o PageText(outcomes[i]))

extract_text_from_pdf(uploaded_file) ==
  LET direct == RunPages(uploaded_file.direct, 1, <<>>)
  IN  IF ~direct.raised THEN direct.text
      ELSE RunPages(uploaded_file.ocr, 1, direct.text).text

extract_text_from_image(uploaded_file) ==
  IF uploaded_file.ocr[1].kind = "raise" THEN <<>>
  ELSE uploaded_file.ocr[1].text

\* --------------------------------------------------------- process_document
DuplicateMsg == Msg("Duplicate document detected", <<>>)

\* the hash compared with the most recent record only
DuplicateCheckLast(anomalies, text, store) ==
  IF store # <<>> /\ store[Len(store)].hash = calculate_hash(text)
  THEN Append(anomalies, Anomaly("High", DuplicateMsg))
  ELSE anomalies

\* the hash compared with every hash the session has seen, cleared or not
DuplicateCheckRemembers(anomalies, text, store) ==
  IF \/ \E i \in 1..Len(store) : store[i].hash = calculate_hash(text)
     \/ text \in preClear
  THEN Append(anomalies, Anomaly("High", DuplicateMsg))
  ELSE anomalies

\* if any(doc['hash'] == doc_hash for doc in processed_documents)
DuplicateCheck(anomalies, text, store) ==
  LET doc_hash == calculate_hash(text)
  IN  IF \E i \in 1..Len(store) : store[i].hash = doc_hash
      THEN Append(anomalies, Anomaly("High", DuplicateMsg))
      ELSE anomalies

\* the GSTIN rule skipped for a document already flagged
GstinCheckUnlessFlagged(anomalies, text) ==
  IF anomalies # <<>> THEN anomalies
  ELSE IF extract_gstin(text) = None
  THEN Append(anomalies, Anomaly("High", Msg("GSTIN not found in document", <<>>)))
  ELSE anomalies

GstinCheck(anomalies, text) ==
  LET gstin == extract_gstin(text)
  IN  IF gstin = None
      THEN Append(anomalies, Anomaly("High", Msg("GSTIN not found in document", <<>>)))
      ELSE IF Len(gstin) # 15
      THEN Append(anomalies, Anomaly("High", Msg("Invalid GSTIN format: {gstin}", <<gstin>>)))
      ELSE anomalies

RateCheck(anomalies, text) ==
  LET gst_rate == extract_gst_rate(text)
  IN  IF gst_rate # None
      THEN LET v == validate_gst_rate(gst_rate)
           IN  IF ~v[1] THEN Append(anomalies, Anomaly("Medium", v[2])) ELSE anomalies
      ELSE Append(anomalies, Anomaly("Low", Msg("GST rate not specified", <<>>)))

CalcCheck(anomalies, text) ==
  LET c == check_calculations(text)
  IN  IF ~c[1] THEN Append(anomalies, Anomaly("High", c[2])) ELSE anomalies

\* returns <<anomalies, text>>; store is st.session_state.processed_documents
process_document(uploaded_file, file_type, store) ==
  LET text == IF file_type = "pdf"
              THEN extract_text_from_pdf(uploaded_file)
              ELSE extract_text_from_image(uploaded_file)
  IN  IF text = <<>>
      THEN <<<<Anomaly("Critical", Msg("Could not extract text from document", <<>>))>>, text>>
      ELSE <<CalcCheck(RateCheck(GstinCheck(DuplicateCheck(<<>>, text, store), text), text), text),
             text>>

\* uploaded_file.type.split('/')[-1], then 'pdf' or anything else
FileType(uploaded_file) ==
  IF uploaded_file.mime[Len(uploaded_file.mime)] = "pdf" THEN "pdf" ELSE "image"

\* the loop ended by the first document whose text could not be extracted
RECURSIVE ProcessFromAbort(_, _, _)
ProcessFromAbort(store, uploaded_files, i) ==
  IF i > Len(uploaded_files) THEN store
  ELSE LET uploaded_file == uploaded_files[i]
           res == process_document(uploaded_file, FileType(uploaded_file), store)
           doc == [name |-> uploaded_file.name,
                   hash |-> calculate_hash(res[2]),
                   text |-> res[2],
                   anomalies |-> res[1]]
       IN  IF res[2] = <<>> THEN store
           ELSE ProcessFromAbort(Append(store, doc), uploaded_files, i + 1)

\* the loop of the Process Documents button, from upload i on
RECURSIVE ProcessFrom(_, _, _)
ProcessFrom(store, uploaded_files, i) ==
  IF i > Len(uploaded_files) THEN store
  ELSE LET uploaded_file == uploaded_files[i]
           res == process_document(uploaded_file, FileType(uploaded_file), store)
           doc == [name |-> uploaded_file.name,
                   hash |-> calculate_hash(res[2]),
                   text |-> res[2],
                   anomalies |-> res[1]]
       IN  ProcessFrom(Append(store, doc), uploaded_files, i + 1)

\* ------------------------------------------------------------------ inputs
\* Lines a document text is made of, each with what it states: an amount
\* line its label and its amount in cents, a rate line the digits of its rate,
\* a GSTIN line whether it is well formed ("gstin"), one character short
\* ("gstin14") or has a 0 as its 13th character ("gstin0").
Pool ==
  <<
    [kind |-> "subtotal", cents |-> 10000, rate |-> <<>>,
     chars |-> <<"S", "u", "b", " ", "T", "o", "t", "a", "l", " ", ":", " ", "1", "0", "0", ".", "0", "0">>],
    [kind |-> "subtotal", cents |-> 200000, rate |-> <<>>,
     chars |-> <<"S", "u", "b", " ", "T", "o", "t", "a", "l", " ", ":", " ", "2", "0", "0", "0", ".", "0", "0">>],
    [kind |-> "tax", cents |-> 1800, rate |-> <<>>,
     chars |-> <<"G", "S", "T", " ", ":", " ", "1", "8", ".", "0", "0">>],
    [kind |-> "total", cents |-> 11800, rate |-> <<>>,
     chars |-> <<"T", "o", "t", "a", "l", " ", ":", " ", "1", "1", "8", ".", "0", "0">>],
    [kind |-> "total", cents |-> 12000, rate |-> <<>>,
     chars |-> <<"T", "o", "t", "a", "l", " ", ":", " ", "1", "2", "0", ".", "0", "0">>],
    [kind |-> "total", cents |-> 201802, rate |-> <<>>,
     chars |-> <<"T", "o", "t", "a", "l", " ", ":", " ", "2", "0", "1", "8", ".", "0", "2">>],
    [kind |-> "gstin", cents |-> 0, rate |-> <<>>,
     chars |-> <<"2", "7", "A", "A", "A", "P", "L", "1", "2", "3", "4", "C", "1", "Z", "5">>],
    [kind |-> "gstin", cents |-> 0, rate |-> <<>>,
     chars |-> <<"2", "7", "a", "a", "a", "p", "l", "1", "2", "3", "4", "c", "1", "z", "5">>],
    [kind |-> "gstin14", cents |-> 0, rate |-> <<>>,
     chars |-> <<"2", "7", "A", "A", "A", "P", "L", "1", "2", "3", "4", "C", "1", "Z">>],
    [kind |-> "gstin0", cents |-> 0, rate |-> <<>>,
     chars |-> <<"2", "7", "A", "A", "A", "P", "L", "1", "2", "3", "4", "C", "0", "Z", "5">>],
    [kind |-> "rate", cents |-> 0, rate |-> <<"1", "8">>,
     chars |-> <<"G", "S", "T", " ", "@", "1", "8", "%">>],
    [kind |-> "rate", cents |-> 0, rate |-> <<"1", "5">>,
     chars |-> <<"G", "S", "T", " ", "@", "1", "5", "%">>],
    [kind |-> "rate", cents |-> 0, rate |-> <<"0">>,
     chars |-> <<"g", "s", "t", " ", "0", "%">>],
    [kind |-> "rate", cents |-> 0, rate |-> <<"0", "1", "8">>,
     chars |-> <<"G", "S", "T", "@", " ", "0", "1", "8", "%">>]
  >>

\* the text of a document made of the Pool lines ls, one per line
RECURSIVE Render(_)
Render(ls) ==
  IF ls = <<>> THEN <<>>
  ELSE IF Len(ls) = 1 THEN Pool[ls[1]].chars
  ELSE Pool[ls[1]].chars \o <<"\n">> \o Render(Tail(ls))

\* documents of at most MaxLines distinct Pool lines, in any order
LineSeqs ==
  UNION {{ls \in [1..n -> 1..Len(Pool)] :
            \A a, b \in 1..n : a # b => ls[a] # ls[b]} : n \in 1..MaxLines}

TextPage(text) == [kind |-> "text", text |-> text]
NonePage == [kind |-> "none", text |-> <<>>]
RaisePage == [kind |-> "raise", text |-> <<>>]

ImageFile(name, outcome) ==
  [name |-> name, mime |-> <<"image", "png">>, direct |-> <<>>, ocr |-> <<outcome>>]

PdfFile(name, direct, ocr) ==
  [name |-> name, mime |-> <<"application", "pdf">>, direct |-> direct, ocr |-> ocr]

\* valid GSTIN, GST @18%, Total : 118.00, Sub Total : 100.00, GST : 18.00
CleanText == Render(<<7, 11, 4, 1, 3>>)
ShortText == <<"x">>

\* the uploads of the session model
Files ==
  { ImageFile("clean.png", TextPage(CleanText)),
    ImageFile("short.png", TextPage(ShortText)),
    ImageFile("broken.png", RaisePage),
    PdfFile("clean.pdf", <<TextPage(SubSeq(CleanText, 1, 24)),
                           TextPage(SubSeq(CleanText, 25, Len(CleanText)))>>, <<>>),
    PdfFile("scan.pdf", <<NonePage>>, <<>>),
    PdfFile("torn.pdf", <<TextPage(ShortText), RaisePage>>, <<RaisePage>>),
    PdfFile("ocr.pdf", <<TextPage(ShortText), RaisePage>>, <<TextPage(ShortText)>>),
    PdfFile("dead.pdf", <<RaisePage>>, <<RaisePage>>) }

BatchesOf(files) == UNION {[1..n -> files] : n \in 1..MaxBatch}

Batches == BatchesOf(Files)

\* ------------------------------------------------------------------ session
\* uploads: the files processed since the store was last emptied (or since
\* the session started), in the order the loop took them.
\* preClear: the texts of the records that a "Clear All Data" has dropped.
TextsOf(store) == {store[i].text : i \in 1..Len(store)}

Init ==
  /\ processed_documents = <<>>
  /\ uploads = <<>>
  /\ preClear = {}
  /\ lines = <<>>

\* "Process Documents" pressed with uploaded_files, one of batches, non-empty
ProcessBatch(batches) ==
  \E uploaded_files \in batches :
    /\ Len(processed_documents) + Len(uploaded_files) <= MaxDocs
    /\ processed_documents' = ProcessFrom(processed_documents, uploaded_files, 1)
    /\ uploads' = uploads \o uploaded_files

ProcessDocuments ==
  /\ ProcessBatch(Batches)
  /\ UNCHANGED <<preClear, lines>>

\* "Clear All Data" pressed
ClearAllData ==
  /\ processed_documents' = <<>>
  /\ uploads' = <<>>
  /\ UNCHANGED <<preClear, lines>>

Next == ProcessDocuments \/ ClearAllData

Spec == Init /\ [][Next]_vars

\* ------------------------------------- the session, with the cleared texts kept
\* The same two buttons over fewer uploads; preClear records what each clear
\* dropped from the store.
ClearFiles ==
  { ImageFile("clean.png", TextPage(CleanText)),
    ImageFile("short.png", TextPage(ShortText)),
    ImageFile("broken.png", RaisePage),
    PdfFile("ocr.pdf", <<RaisePage>>, <<TextPage(ShortText)>>) }

ProcessDocumentsLogged ==
  /\ ProcessBatch(BatchesOf(ClearFiles))
  /\ UNCHANGED <<preClear, lines>>

ClearAllDataLogged ==
  /\ processed_documents' = <<>>
  /\ uploads' = <<>>
  /\ preClear' = preClear \cup TextsOf(processed_documents)
  /\ UNCHANGED lines

NextClear == ProcessDocumentsLogged \/ ClearAllDataLogged

SpecClear == Init /\ [][NextClear]_vars

\* ------------------------------------------------- one document, fresh session
InitRules ==
  /\ processed_documents = <<>>
  /\ uploads = <<>>
  /\ preClear = {}
  /\ lines \in LineSeqs

\* "Process Documents" pressed in a fresh session with one image uploaded,
\* whose OCR text is the document made of `lines`
ProcessRendered ==
  /\ processed_documents = <<>>
  /\ LET uploaded_files == <<ImageFile("doc.png", TextPage(Render(lines)))>>
     IN  /\ processed_documents' = ProcessFrom(processed_documents, uploaded_files, 1)
         /\ uploads' = uploads \o uploaded_files
  /\ UNCHANGED <<preClear, lines>>

NextRules == ProcessRendered

SpecRules == InitRules /\ [][NextRules]_vars

\* ------------------------------------------------------------------ claims
Docs == 1..Len(processed_documents)

DuplicateCount(doc) ==
  Cardinality({k \in 1..Len(doc.anomalies) :
                 doc.anomalies[k] = Anomaly("High", DuplicateMsg)})

\* an earlier record of the store holds the same text as record j
SeenBefore(j) ==
  \E i \in 1..(j - 1) : processed_documents[i].text = processed_documents[j].text

DuplicateIffSeenBefore(j) ==
  DuplicateCount(processed_documents[j]) = (IF SeenBefore(j) THEN 1 ELSE 0)

\* C1, as stated: every record, whatever its text, carries exactly one High
\* "Duplicate document detected" anomaly if an earlier record of the store
\* holds the same text, and none otherwise.
C1_DuplicateForEveryText == \A j \in Docs : DuplicateIffSeenBefore(j)

\* C1, amended: the same, for every record whose extracted text is not empty;
\* a record whose text is empty never carries the duplicate anomaly.
C1_DuplicateForNonEmptyText ==
  \A j \in Docs :
    IF processed_documents[j].text # <<>>
    THEN DuplicateIffSeenBefore(j)
    ELSE DuplicateCount(processed_documents[j]) = 0

\* two records of one batch or of two batches hold the same non-empty text:
\* the first is unflagged, the second flagged once
C1_Witness ==
  \E i, j \in Docs :
    /\ i < j
    /\ processed_documents[i].text # <<>>
    /\ processed_documents[i].text = processed_documents[j].text
    /\ DuplicateCount(processed_documents[i]) = 0
    /\ DuplicateCount(processed_documents[j]) = 1

\* C2: when nothing has been processed since the last clear the store is
\* empty, and a record carries the duplicate anomaly only if an upload
\* processed since the last clear, and before it, gave the same text.
C2_ClearForgetsDuplicates ==
  /\ uploads = <<>> => processed_documents = <<>>
  /\ \A j \in Docs :
       DuplicateCount(processed_documents[j]) > 0 =>
         \E i \in 1..(j - 1) :
           /\ i <= Len(uploads)
           /\ processed_documents[i].name = uploads[i].name
           /\ processed_documents[i].text = processed_documents[j].text

\* a text dropped by a clear is processed again, first after the clear, and
\* is not flagged
C2_Witness ==
  \E j \in Docs :
    /\ processed_documents[j].text # <<>>
    /\ processed_documents[j].text \in preClear
    /\ ~SeenBefore(j)
    /\ DuplicateCount(processed_documents[j]) = 0

IsPrefix(s, t) == Len(s) <= Len(t) /\ SubSeq(t, 1, Len(s)) = s

Raises(outcomes) == \E k \in 1..Len(outcomes) : outcomes[k].kind = "raise"

StoreIsUploadLog ==
  /\ Len(processed_documents) = Len(uploads)
  /\ \A i \in Docs :
       /\ processed_documents[i].name = uploads[i].name
       /\ processed_documents[i].hash = calculate_hash(processed_documents[i].text)

AppendOrClear ==
  \/ /\ IsPrefix(processed_documents, processed_documents')
     /\ IsPrefix(uploads, uploads')
  \/ /\ processed_documents' = <<>>
     /\ uploads' = <<>>

\* C3: the store holds one record per upload processed since the last clear,
\* in upload order, whatever each extraction gave; a step either appends to
\* the store, leaving the records it holds as they are, or is the clear that
\* empties it.
C3_StoreIsUploadLog == []StoreIsUploadLog /\ [][AppendOrClear]_vars

\* an upload whose extraction failed is stored, and so is the upload after it
C3_Witness ==
  /\ StoreIsUploadLog
  /\ \E i, j \in Docs :
       /\ i < j
       /\ Raises(uploads[i].ocr)
       /\ processed_documents[i].text = <<>>
       /\ processed_documents[j].text # <<>>

IsPdf(uploaded_file) == FileType(uploaded_file) = "pdf"

\* direct extraction raised and so did the OCR fallback; or the image's OCR raised
ExtractionFailed(uploaded_file) ==
  IF IsPdf(uploaded_file)
  THEN Raises(uploaded_file.direct) /\ Raises(uploaded_file.ocr)
  ELSE Raises(uploaded_file.ocr)

CriticalAnomaly ==
  Anomaly("Critical", Msg("Could not extract text from document", <<>>))

\* C4, as stated: a pdf whose direct extraction and OCR fallback both raise,
\* at whatever page, and an image whose OCR raises, is stored with empty
\* text and carries the Critical extraction anomaly.
C4_FailedExtractionIsEmpty ==
  \A i \in Docs :
    (i <= Len(uploads) /\ ExtractionFailed(uploads[i])) =>
      /\ processed_documents[i].text = <<>>
      /\ \E k \in 1..Len(processed_documents[i].anomalies) :
           processed_documents[i].anomalies[k] = CriticalAnomaly

\* the rule an anomaly comes from: 1 duplicate, 2 GSTIN, 3 rate, 4 calculation
RuleOf(anomaly) ==
  LET fmt == anomaly[2].fmt
  IN  CASE fmt = "Duplicate document detected" -> 1
        [] fmt \in {"GSTIN not found in document", "Invalid GSTIN format: {gstin}"} -> 2
        [] fmt \in {"GST rate not specified", "Non-standard GST rate: {rate}%"} -> 3
        [] fmt \in {"Total amount not found",
                    "Calculation mismatch: {subtotal} + {tax} /= {total}"} -> 4
        [] OTHER -> 0

Fires(doc, rule) ==
  \E k \in 1..Len(doc.anomalies) : RuleOf(doc.anomalies[k]) = rule

\* each rule's anomaly is in record j exactly when that rule, taken alone,
\* finds fault with the record's text, and the rule anomalies are in rule
\* order, at most one per rule
RulesIndependent(j) ==
  LET doc == processed_documents[j]
  IN  /\ Fires(doc, 1) <=> SeenBefore(j)
      /\ Fires(doc, 2) <=> Len(extract_gstin(doc.text)) # 15
      /\ Fires(doc, 3) <=> extract_gst_rate(doc.text) \notin GST_RATES
      /\ Fires(doc, 4) <=> ~check_calculations(doc.text)[1]
      /\ \A p, q \in 1..Len(doc.anomalies) :
           (p < q /\ RuleOf(doc.anomalies[p]) > 0 /\ RuleOf(doc.anomalies[q]) > 0)
             => RuleOf(doc.anomalies[p]) < RuleOf(doc.anomalies[q])

\* C5, as stated: for every processed document all four rules are evaluated,
\* in the order duplicate, GSTIN, rate, calculation, each independently of
\* the others and of every earlier outcome of process_document.
C5_AllRulesForEveryDocument == \A j \in Docs : RulesIndependent(j)

\* C5, amended: the same, for every document whose extracted text is not
\* empty, and such a record holds rule anomalies only; a document whose text
\* is empty holds the Critical extraction anomaly and nothing else.
C5_AllRulesForNonEmptyText ==
  \A j \in Docs :
    IF processed_documents[j].text # <<>>
    THEN /\ RulesIndependent(j)
         /\ ~Fires(processed_documents[j], 0)
    ELSE processed_documents[j].anomalies = <<CriticalAnomaly>>

\* a document that all four rules flag: one anomaly of each, in rule order
C5_Witness ==
  \E j \in Docs :
    /\ processed_documents[j].text # <<>>
    /\ Len(processed_documents[j].anomalies) = 4
    /\ \A r \in 1..4 : RuleOf(processed_documents[j].anomalies[r]) = r

\* C10, as stated: when the direct extraction of a pdf raises, after any
\* number of pages, the text stored is the text of the OCR fallback's pages
\* alone, in page order.
C10_NoMergeAcrossStrategies ==
  \A i \in Docs :
    (i <= Len(uploads) /\ IsPdf(uploads[i]) /\ Raises(uploads[i].direct)) =>
      processed_documents[i].text = RunPages(uploads[i].ocr, 1, <<>>).text

\* --------------------------------------------- claims about one document
Processed == Len(processed_documents) = 1

\* the positions in `lines` of the lines of these kinds
LinesOfKind(kinds) == {i \in 1..Len(lines) : Pool[lines[i]].kind \in kinds}

\* the first line of `lines` that is of this kind
FirstOfKind(kind) == Pool[lines[Min(LinesOfKind({kind}))]]

\* the anomalies of the document that come from this rule, in order
RuleAnomalies(rule) ==
  LET FromRule(a) == RuleOf(a) = rule
  IN  SelectSeq(processed_documents[1].anomalies, FromRule)

\* C6, as stated: a text with one "Sub Total : S", one "GST : T" and one
\* "Total : X" line gets no calculation anomaly when S + T = X and High
\* "Calculation mismatch: S + T /= X" when not, X being the amount labeled
\* "Total"; and a text gets High "Total amount not found" exactly when it
\* holds no "Total : D.DD" (which the tail of a "Sub Total : D.DD" is, too).
C6_LabeledAmounts ==
  Processed =>
    /\ ( /\ Cardinality(LinesOfKind({"subtotal"})) = 1
         /\ Cardinality(LinesOfKind({"tax"})) = 1
         /\ Cardinality(LinesOfKind({"total"})) = 1 ) =>
         LET S == FirstOfKind("subtotal").cents
             T == FirstOfKind("tax").cents
             X == FirstOfKind("total").cents
         IN  RuleAnomalies(4) =
               IF S + T = X THEN <<>>
               ELSE <<Anomaly("High",
                        Msg("Calculation mismatch: {subtotal} + {tax} /= {total}",
                            <<FloatStr(S), FloatStr(T), FloatStr(X)>>))>>
    /\ (RuleAnomalies(4) = <<Anomaly("High", Msg("Total amount not found", <<>>))>>)
         <=> LinesOfKind({"total", "subtotal"}) = {}

\* C7, as stated: with total, subtotal and tax all parsed, the document gets
\* the calculation anomaly exactly when |subtotal + tax - total| exceeds one
\* cent, whatever the size of the amounts; with the total parsed and the
\* subtotal or the tax not, it gets none.
C7_AbsoluteTolerance ==
  Processed =>
    LET text == processed_documents[1].text
        total == SearchTotal(text)
        subtotal == SearchSubtotal(text)
        tax == SearchTax(text)
    IN  /\ (total # None /\ subtotal # None /\ tax # None) =>
             (Fires(processed_documents[1], 4)
                <=> Abs(ToFloat(subtotal) + ToFloat(tax) - ToFloat(total)) > 1)
        /\ (total # None /\ (subtotal = None \/ tax = None)) =>
             ~Fires(processed_documents[1], 4)

\* C8, as stated: a text with a well-formed 15-character GSTIN gets no GSTIN
\* anomaly; a text whose only GSTIN-like string is the 14-character near-miss
\* gets High "Invalid GSTIN format: <near-miss>"; a text with neither gets
\* High "GSTIN not found in document".
C8_GstinRule ==
  Processed =>
    LET well == LinesOfKind({"gstin", "gstin0"})
        near == LinesOfKind({"gstin14"})
    IN  RuleAnomalies(2) =
          IF well # {} THEN <<>>
          ELSE IF near # {}
          THEN <<Anomaly("High", Msg("Invalid GSTIN format: {gstin}",
                                     <<FirstOfKind("gstin14").chars>>))>>
          ELSE <<Anomaly("High", Msg("GSTIN not found in document", <<>>))>>

StandardRates == {<<"0">>, <<"5">>, <<"1", "2">>, <<"1", "8">>, <<"2", "8">>}

\* C9: a text with no "GST [@] <digits>%" gets exactly Low "GST rate not
\* specified"; one whose first such pattern has the digits 0, 5, 12, 18 or 28,
\* written so, gets no rate anomaly; one whose first such pattern has any
\* other digit string R gets exactly Medium "Non-standard GST rate: R%".
C9_RateRule ==
  Processed =>
    RuleAnomalies(3) =
      IF LinesOfKind({"rate"}) = {}
      THEN <<Anomaly("Low", Msg("GST rate not specified", <<>>))>>
      ELSE IF FirstOfKind("rate").rate \in StandardRates THEN <<>>
      ELSE <<Anomaly("Medium", Msg("Non-standard GST rate: {rate}%",
                                   <<FirstOfKind("rate").rate>>))>>

\* a document whose first rate is written "0": read as a rate, and standard
C9_Witness ==
  /\ Processed
  /\ LinesOfKind({"rate"}) # {}
  /\ FirstOfKind("rate").rate = <<"0">>
  /\ RuleAnomalies(3) = <<>>

====
